---- MODULE Spec2Model ----
(***************************************************************************)
(* SaverX desktop download orchestrator (src/desktop_app.py).              *)
(*                                                                         *)
(* Threads: the Tk main thread runs start_download, _stop_download and     *)
(* the periodic _flush_logs callback one at a time; every job has one      *)
(* worker thread running _download_worker.  Workers talk to the main       *)
(* thread through event_q and read their job's cancel_event.               *)
(*                                                                         *)
(* The media fetcher (yt_dlp.YoutubeDL.extract_info / prepare_filename) is *)
(* the environment.  It calls progress_hook with status 'downloading' any  *)
(* number of times, then with status 'finished' once the file is complete, *)
(* and then returns the info (success); it can raise at any point.  An     *)
(* exception raised by the hook aborts the fetcher and propagates out of   *)
(* extract_info.  The file system and the Tk widgets are assumed not to    *)
(* fail; log_q carries display text only and is not modelled.              *)
(*                                                                         *)
(* The URL entry of the desktop window and its auto-start timer are       *)
(* modelled by the specification PasteSpec: there the text of the entry   *)
(* is part of the state, while Spec takes start_download with whatever    *)
(* text the user has put into the entry.                                  *)
(*                                                                         *)
(* The Flet front end (src/main.py) is a separate program with its own    *)
(* global list `downloads`; it is modelled by the variable flet and the   *)
(* specification FletSpec.  Each of its downloads runs _download_thread   *)
(* in a thread of its own; time.time() is the environment and is read off *)
(* a clock of finite resolution that never runs backwards.  yt-dlp and    *)
(* flet are the environment there too: yt-dlp calls _yt_dlp_hook any      *)
(* number of times between the start of the download and its return or    *)
(* its error, and page.run_thread hands the callable to a pool thread,    *)
(* which runs it at some later time, in no fixed order and without regard *)
(* to the thread that handed it over.                                     *)
(*                                                                         *)
(* Texts: the Arabic literals of the source are written in ASCII:          *)
(*   'قيد التحضير...' = "preparing", 'أُلغي' = "ulghiya", 'خطأ: ' = "khata: ".  *)
(***************************************************************************)
EXTENDS Integers, Sequences, FiniteSets, TLC

(* ---- bounds of the exploration ---- *)
MaxJobs == 2        \* jobs submitted in one run
MaxTicks == 2       \* 'downloading' notifications delivered in one run (all jobs)
MaxLoad == 4        \* size of one run: a job counts 2, a notification 1
MaxFletJobs == 2    \* downloads started in the Flet front end in one run
MaxClock == 2       \* readings 0..MaxClock of the clock behind time.time()
MaxWrites == 3      \* writes to the URL entry in one run
MaxFletLoad == 7    \* size of one run of the Flet front end: a download
                    \* counts 3, a call of _yt_dlp_hook 1

(* ---- values ---- *)
NoneVal == -1       \* Python None for the eta field
MinUrlLen == 10     \* a pasted text starts a download if it is longer

PREPARING == "preparing"
USER_CANCELLED == "USER_CANCELLED"
CANCELLED_TEXT == "ulghiya"
ERROR_PREFIX == "khata: "

(* texts the user can have in the URL entry, as sequences of characters *)
Urls == {<<>>, <<" ">>, <<" ", " ">>, <<"x">>, <<" ", "x", " ">>, <<"x", " ">>}
Paths == {"/dl/v1.mp4"}
FetchErrors == {"net down"}

(* the dicts d yt-dlp hands to progress_hook with status 'downloading';   *)
(* 0 stands for an absent, None or zero byte count (all falsy in Python): *)
(* a known total, a known total whose percentage is not exact in binary   *)
(* floating point, no total at all, and an estimate that the download has *)
(* outgrown                                                               *)
Notification(b, t, e, m) ==
  [downloaded_bytes |-> b, total_bytes |-> t, total_bytes_estimate |-> e,
   speed_str |-> m[1], eta |-> m[2]]

Notifications ==
  {Notification(400, 1000, 0, <<"1MiB/s", 5>>),
   Notification(29, 100, 0, <<"", NoneVal>>),
   Notification(500, 0, 0, <<"1MiB/s", 5>>),
   Notification(3, 0, 2, <<"", NoneVal>>)}

VARIABLES
  downloads,      \* self.downloads: id -> DownloadItem
  counter,        \* self._download_counter
  event_q,        \* self.event_q
  wpc,            \* id -> position of the job's worker thread
  exc,            \* id -> str(e) of the exception the worker caught ("" if none)
  flushing,       \* the main thread is inside the event loop of _flush_logs
  dialog,         \* the modal messagebox currently shown ("" if none)
  published,      \* history: id -> the tuples the job's threads put on
                  \* event_q, in order
  delivered,      \* history: id -> the tuples of the job _flush_logs has
                  \* taken from event_q and dispatched, in order
  sigAt,          \* history: id -> where the job was at its first
                  \* _stop_download ("" if none): the position of its
                  \* worker, or "terminal" if the item was already terminal
  tickLog,        \* history: id -> a record:
                  \*   seen    the 'downloading' dicts the job's
                  \*           progress_hook has handled without raising,
                  \*           in order
                  \*   atStop  how many of them it had handled at the job's
                  \*           first _stop_download (NoneVal if none)
  widgets,        \* the Tk side of the window, a record of two fields.
                  \* gallery_by: history, the threads that have run
                  \* refresh_gallery, which rewrites the widgets
                  \* gallery_list and lbl_total: "main" (the Tk thread)
                  \* or "worker".
                  \* entry: the URL entry and its auto-start timer,
                  \* a record:
                  \*   url_var   the text of self.url_var
                  \*   after_id  self._paste_after_id (NoneVal for None)
                  \*   timers    the after(350) timers that are pending,
                  \*             each a record: its id, the value v its
                  \*             callback holds and (history) the text
                  \*             of the entry that armed it
                  \*   armed     how many timers have been armed so far
                  \*   writes    history: writes to url_var so far
                  \*   started   history: jobs started since the last write
                  \*   submitted history: start_download was called from
                  \*             the Return key or the button since the
                  \*             last write
  flet            \* the state of the Flet front end (src/main.py), a record:
                  \*   downloads  the global list downloads: the items in
                  \*              list order, each named by the number of
                  \*              its thread
                  \*   item       thread -> the DownloadItem its
                  \*              _download_thread made
                  \*   pc         thread -> position of the _download_thread
                  \*   now        the value time.time() returns at present
                  \*   created    history: the threads in the order they
                  \*              made their item
                  \*   url        thread -> the URL it was started with
                  \*   cb         thread -> the status callbacks its hook
                  \*              has handed to page.run_thread and that
                  \*              have not run yet (their texts)
                  \*   status_text  self.status_text.value of the view
                  \*   hooks      calls of _yt_dlp_hook so far

desktop_vars == <<downloads, counter, event_q, wpc, exc, flushing, dialog,
                  published, delivered, sigAt, tickLog, widgets>>

vars == <<desktop_vars, flet>>

gallery_by == widgets.gallery_by
entry == widgets.entry

notified == [j \in DOMAIN tickLog |-> tickLog[j].seen]
sigTick == [j \in DOMAIN tickLog |-> tickLog[j].atStop]

flet_downloads == flet.downloads
flet_item == flet.item
flet_pc == flet.pc
flet_now == flet.now
flet_created == flet.created
flet_url == flet.url
flet_cb == flet.cb
flet_status_text == flet.status_text
FletHooks == flet.hooks

(* size of the run of the Flet front end so far *)
FletLoad == 3 * Len(flet.pc) + flet.hooks

(* ---- pure helpers ---- *)
RECURSIVE lstrip(_)
lstrip(s) == IF s # <<>> /\ Head(s) = " " THEN lstrip(Tail(s)) ELSE s

RECURSIVE rstrip(_)
rstrip(s) ==
  IF s # <<>> /\ s[Len(s)] = " " THEN rstrip(SubSeq(s, 1, Len(s) - 1)) ELSE s

(* a variant that forgets to trim *)
strip_None(s) == s

(* str.strip() *)
strip(s) == rstrip(lstrip(s))

(* DownloadItem(id=dlid, title=..., url=url) with the dataclass defaults; *)
(* cancel_event holds is_set() of the item's threading.Event              *)
DownloadItem(dlid, title, url) ==
  [id |-> dlid, title |-> title, url |-> url, status |-> "pending",
   progress |-> 0, speed |-> "", eta |-> NoneVal, filepath |-> "",
   cancel_event |-> FALSE]

(* total = d.get('total_bytes') or d.get('total_bytes_estimate') *)
Total(d) == IF d.total_bytes # 0 THEN d.total_bytes ELSE d.total_bytes_estimate

(* the exact percentage, rounded down *)
Floor100(b, t) == (b * 100) \div t

(* the (downloaded, total) pairs of Notifications for which the binary64  *)
(* value of downloaded / total * 100 lies below the next integer although *)
(* the exact percentage reaches it: 29 / 100 is 0.28999999999999998, and  *)
(* 29 / 100 * 100 is 28.999999999999996                                   *)
RoundedBelow == {<<29, 100>>}

(* int(downloaded / total * 100) in Python floats, for the byte counts of *)
(* Notifications: the true division and the product are rounded to        *)
(* binary64 and int() truncates the result                                *)
FloatPercent(b, t) ==
  IF <<b, t>> \in RoundedBelow THEN Floor100(b, t) - 1 ELSE Floor100(b, t)

(* perc = int(downloaded / total * 100) if total else 0 *)
Percent(d) ==
  IF Total(d) # 0 THEN FloatPercent(d.downloaded_bytes, Total(d)) ELSE 0

(* f'خطأ: {e}' *)
ErrorText(e) == ERROR_PREFIX \o e

(* queue.Queue: put appends, get_nowait takes the oldest item *)
Put(q, ev) == Append(q, ev)

(* a variant that takes the newest item *)
GetNowait_Lifo(q) == <<q[Len(q)], SubSeq(q, 1, Len(q) - 1)>>

GetNowait(q) == <<Head(q), Tail(q)>>

(* ---- the states of a job, read off DownloadItem.status ---- *)
IsCancelled(status) == status = CANCELLED_TEXT

(* str(e) of the exceptions the except block of the worker can catch *)
Messages == FetchErrors \cup {USER_CANCELLED}

IsFailed(status) == status \in {ErrorText(e) : e \in Messages}

IsTerminal(status) == status = "done" \/ IsCancelled(status) \/ IsFailed(status)

(* ---- the handlers _flush_logs dispatches to, as functions of the item ---- *)

(* a variant that gives the row a fresh cancel event *)
AddRow_NewEvent(item, title) ==
  [item EXCEPT !.filepath = "", !.status = "downloading", !.progress = 0,
               !.title = title, !.cancel_event = FALSE]

(* _add_download_row: lines 413-416 *)
AddRow(item, title) ==
  [item EXCEPT !.filepath = "", !.status = "downloading", !.progress = 0,
               !.title = title]

(* _update_download_row: lines 424-426 *)
UpdateRow(item, percent, speed, eta) ==
  [item EXCEPT !.progress = percent, !.speed = speed, !.eta = eta]

(* _set_download_status: line 440 *)
SetStatus(item, text) == [item EXCEPT !.status = text]

(* a variant that stores the path but leaves the status *)
SetDone_PathOnly(item, filepath) == [item EXCEPT !.filepath = filepath]

(* _set_download_done: lines 476-477 *)
SetDone(item, filepath) ==
  [item EXCEPT !.status = "done", !.filepath = filepath]

(* a variant that marks the item cancelled at once *)
StopItem_SetsStatus(item) ==
  [item EXCEPT !.cancel_event = TRUE, !.status = CANCELLED_TEXT]

(* _stop_download: lines 457-463; the else branch replaces a missing event *)
(* by a set one, so both branches leave the item with a set event          *)
StopItem(item) == [item EXCEPT !.cancel_event = TRUE]

(* _add_download_row (line 418) and _set_download_done (line 489) end    *)
(* with self.refresh_gallery(), for an item they know                     *)
RefreshesGallery(ev) ==
  ev[2] \in DOMAIN downloads /\ ev[1] \in {"add", "done"}

(* a variant that applies a status tuple to every row *)
Dispatch_AllRows(ev) ==
  [j \in DOMAIN downloads |->
     CASE ev[1] = "status" -> SetStatus(downloads[j], ev[3])
       [] j # ev[2] -> downloads[j]
       [] ev[1] = "add"      -> AddRow(downloads[j], ev[3])
       [] ev[1] = "progress" -> UpdateRow(downloads[j], ev[3], ev[4], ev[5])
       [] ev[1] = "done"     -> SetDone(downloads[j], ev[3])
       [] OTHER              -> downloads[j]]

(* a variant whose handlers make up an item for an id they do not know *)
Dispatch_Creates(ev) ==
  LET dlid == ev[2]
      known == [i \in DOMAIN downloads \cup {dlid} |->
                  IF i \in DOMAIN downloads THEN downloads[i]
                  ELSE DownloadItem(dlid, PREPARING, <<>>)] IN
  [known EXCEPT ![dlid] =
     CASE ev[1] = "add"      -> AddRow(@, ev[3])
       [] ev[1] = "progress" -> UpdateRow(@, ev[3], ev[4], ev[5])
       [] ev[1] = "status"   -> SetStatus(@, ev[3])
       [] ev[1] = "done"     -> SetDone(@, ev[3])
       [] OTHER              -> @]

(* the dispatch of _flush_logs on one tuple, lines 346-358; every handler *)
(* returns at once when self.downloads.get(dlid) finds no item            *)
Dispatch(ev) ==
  LET dlid == ev[2] IN
  IF dlid \notin DOMAIN downloads
    THEN downloads
    ELSE [downloads EXCEPT ![dlid] =
            CASE ev[1] = "add"      -> AddRow(@, ev[3])
              [] ev[1] = "progress" -> UpdateRow(@, ev[3], ev[4], ev[5])
              [] ev[1] = "status"   -> SetStatus(@, ev[3])
              [] ev[1] = "done"     -> SetDone(@, ev[3])
              [] OTHER              -> @]

(* ---- the worker: progress_hook and the try/except of _download_worker ---- *)

(* a variant whose hook never looks at the token *)
CancelObserved_Never(dlid) == FALSE

(* line 514: itm and itm.cancel_event and itm.cancel_event.is_set() *)
CancelObserved(dlid) ==
  dlid \in DOMAIN downloads /\ downloads[dlid].cancel_event

(* a variant whose hook puts the progress tuple before it looks at the   *)
(* token                                                                  *)
HookDownloading_PutsFirst(dlid, d) ==
  [put |-> << <<"progress", dlid, Percent(d), d.speed_str, d.eta>> >>,
   raises |-> CancelObserved(dlid)]

(* a variant whose hook reports the cancellation itself before it raises *)
HookDownloading_Reports(dlid, d) ==
  IF CancelObserved(dlid)
    THEN [put |-> << <<"status", dlid, CANCELLED_TEXT>> >>, raises |-> TRUE]
    ELSE [put |-> << <<"progress", dlid, Percent(d), d.speed_str, d.eta>> >>,
          raises |-> FALSE]

(* lines 503-519: what progress_hook does with a 'downloading' dict: the  *)
(* tuples it puts, and whether it raises Exception('USER_CANCELLED')      *)
HookDownloading(dlid, d) ==
  IF CancelObserved(dlid)
    THEN [put |-> <<>>, raises |-> TRUE]
    ELSE [put |-> << <<"progress", dlid, Percent(d), d.speed_str, d.eta>> >>,
          raises |-> FALSE]

(* lines 520-521 *)
HookFinished(dlid) == << <<"status", dlid, "finalizing">> >>

(* a variant that lets a signalled token win over a finished download *)
SuccessEvents_CancelWins(dlid, filepath) ==
  IF CancelObserved(dlid)
    THEN << <<"status", dlid, CANCELLED_TEXT>> >>
    ELSE << <<"done", dlid, filepath>> >>

(* a variant that reports a last, full progress after the completion *)
SuccessEvents_LateProgress(dlid, filepath) ==
  << <<"done", dlid, filepath>>, <<"progress", dlid, 100, "", NoneVal>> >>

(* line 535 *)
SuccessEvents(dlid, filepath) == << <<"done", dlid, filepath>> >>

(* a variant that reports every exception as an error *)
ExceptEvents_NoCancel(dlid, msg) == << <<"status", dlid, ErrorText(msg)>> >>

(* a variant that forgets to report an error that is not a cancellation *)
ExceptEvents_NoFailed(dlid, msg) ==
  IF msg = USER_CANCELLED \/ CancelObserved(dlid)
    THEN << <<"status", dlid, CANCELLED_TEXT>> >>
    ELSE <<>>

(* lines 539-545: the tuples the except block puts for the message msg *)
ExceptEvents(dlid, msg) ==
  IF msg = USER_CANCELLED \/ CancelObserved(dlid)
    THEN << <<"status", dlid, CANCELLED_TEXT>> >>
    ELSE << <<"status", dlid, ErrorText(msg)>> >>

(* a variant that counts in steps of two *)
NextCounter_Skip(c) == c + 2

(* a variant that forgets the increment *)
NextCounter_Same(c) == c

(* line 371 *)
NextCounter(c) == c + 1

(* ---- state machine ---- *)

Init ==
  /\ downloads = <<>>
  /\ counter = 1
  /\ event_q = <<>>
  /\ wpc = <<>>
  /\ exc = <<>>
  /\ flushing = FALSE
  /\ dialog = ""
  /\ published = <<>>
  /\ delivered = <<>>
  /\ sigAt = <<>>
  /\ tickLog = <<>>
  /\ widgets = [gallery_by |-> {"main"},
                entry |-> [url_var |-> <<>>, after_id |-> NoneVal,
                           timers |-> {}, armed |-> 0, writes |-> 0,
                           started |-> 0, submitted |-> FALSE]]
  /\ flet = [downloads |-> <<>>, item |-> <<>>, pc |-> <<>>, now |-> 0,
             created |-> <<>>, url |-> <<>>, cb |-> <<>>,
             status_text |-> "", hooks |-> 0]

(* the main thread is in the Tk main loop, no modal window open *)
MainIdle == ~flushing /\ dialog = ""

Extend(f, k, v) == [i \in DOMAIN f \cup {k} |-> IF i = k THEN v ELSE f[i]]

(* 'downloading' notifications delivered so far, over all jobs: every one *)
(* but an aborting one has put a progress tuple                           *)
RECURSIVE Sum(_, _)
Sum(f, S) ==
  IF S = {} THEN 0 ELSE LET k == CHOOSE k \in S : TRUE IN f[k] + Sum(f, S \ {k})

Ticks ==
  Sum([j \in DOMAIN published |->
         Len(SelectSeq(published[j], LAMBDA ev : ev[1] = "progress"))],
      DOMAIN published)

(* size of the run so far: jobs submitted and notifications delivered *)
Load == 2 * (counter - 1) + Ticks

(* the body of start_download when url_var holds the text u, lines       *)
(* 365-380                                                                *)
start_download_body(u) ==
     LET url == strip(u) IN
     IF url = <<>>
       THEN /\ dialog' = "required"
            /\ UNCHANGED <<downloads, counter, event_q, wpc, exc, flushing,
                           published, delivered, sigAt, tickLog>>
       ELSE /\ counter <= MaxJobs
            /\ Load + 2 <= MaxLoad
            /\ LET dlid == counter
                   item == DownloadItem(dlid, PREPARING, url) IN
               /\ counter' = NextCounter(counter)
               /\ downloads' = Extend(downloads, dlid, item)
               /\ event_q' = Put(event_q, <<"add", dlid, item.title>>)
               /\ published' = Extend(published, dlid,
                                       << <<"add", dlid, item.title>> >>)
               /\ delivered' = Extend(delivered, dlid, <<>>)
               /\ wpc' = Extend(wpc, dlid, "transfer")
               /\ exc' = Extend(exc, dlid, "")
               /\ sigAt' = Extend(sigAt, dlid, "")
               /\ tickLog' = Extend(tickLog, dlid,
                                     [seen |-> <<>>, atStop |-> NoneVal])
            /\ UNCHANGED <<flushing, dialog>>

(* start_download from the Return key or the button, the user having put  *)
(* the text u into the URL entry, lines 364-380                           *)
start_download(u) ==
  /\ MainIdle
  /\ start_download_body(u)
  /\ UNCHANGED <<widgets, flet>>

(* the user closes the messagebox of line 367 *)
DismissDialog ==
  /\ ~flushing
  /\ dialog # ""
  /\ dialog' = ""
  /\ UNCHANGED <<downloads, counter, event_q, wpc, exc, flushing,
                 published, delivered, sigAt, tickLog>>
  /\ UNCHANGED <<widgets, flet>>

(* _stop_download(dlid), lines 452-470 *)
stop_download(dlid) ==
  /\ MainIdle
  /\ IF dlid \notin DOMAIN downloads
       THEN UNCHANGED <<downloads, sigAt, tickLog>>
       ELSE /\ downloads' = [downloads EXCEPT ![dlid] = StopItem(@)]
            /\ sigAt' = [sigAt EXCEPT ![dlid] =
                 IF @ # "" THEN @
                 ELSE IF IsTerminal(downloads[dlid].status) THEN "terminal"
                 ELSE wpc[dlid]]
            /\ tickLog' = [tickLog EXCEPT ![dlid].atStop =
                 IF sigAt[dlid] # "" THEN @ ELSE Len(tickLog[dlid].seen)]
  /\ UNCHANGED <<counter, event_q, wpc, exc, flushing, dialog, published,
                 delivered>>
  /\ UNCHANGED <<widgets, flet>>

(* _flush_logs: the after(200) timer fires, the loop of lines 340-358     *)
(* takes one tuple per step, queue.Empty ends it                          *)
FlushStart ==
  /\ ~flushing
  /\ flushing' = TRUE
  /\ UNCHANGED <<downloads, counter, event_q, wpc, exc, dialog, published,
                 delivered, sigAt, tickLog>>
  /\ UNCHANGED <<widgets, flet>>

FlushStep ==
  /\ flushing
  /\ event_q # <<>>
  /\ LET ev == GetNowait(event_q)[1] IN
     /\ downloads' = Dispatch(ev)
     /\ delivered' = IF ev[2] \in DOMAIN delivered
                        THEN [delivered EXCEPT ![ev[2]] = Append(@, ev)]
                        ELSE delivered
  /\ event_q' = GetNowait(event_q)[2]
  /\ UNCHANGED <<counter, wpc, exc, flushing, dialog, published, sigAt,
                 tickLog>>
  /\ widgets' = [widgets EXCEPT !.gallery_by =
                   IF RefreshesGallery(GetNowait(event_q)[1])
                     THEN @ \cup {"main"} ELSE @]
  /\ UNCHANGED flet

FlushEnd ==
  /\ flushing
  /\ event_q = <<>>
  /\ flushing' = FALSE
  /\ UNCHANGED <<downloads, counter, event_q, wpc, exc, dialog, published,
                 delivered, sigAt, tickLog>>
  /\ UNCHANGED <<widgets, flet>>

(* the worker of dlid calls self.event_q.put for each tuple of evs *)
PutAll(dlid, evs) ==
  /\ event_q' = event_q \o evs
  /\ published' = [published EXCEPT ![dlid] = @ \o evs]

(* the fetcher delivers a 'downloading' notification to progress_hook *)
TickDownloading(dlid) ==
  /\ wpc[dlid] = "transfer"
  /\ Ticks < MaxTicks
  /\ Load + 1 <= MaxLoad
  /\ \E d \in Notifications :
       LET r == HookDownloading(dlid, d) IN
       /\ PutAll(dlid, r.put)
       /\ tickLog' = [tickLog EXCEPT ![dlid].seen =
                        IF r.raises THEN @ ELSE Append(@, d)]
       /\ IF r.raises
            THEN /\ wpc' = [wpc EXCEPT ![dlid] = "except"]
                 /\ exc' = [exc EXCEPT ![dlid] = USER_CANCELLED]
            ELSE UNCHANGED <<wpc, exc>>
  /\ UNCHANGED <<downloads, counter, flushing, dialog, delivered, sigAt>>
  /\ UNCHANGED <<widgets, flet>>

(* the fetcher delivers the 'finished' notification *)
TickFinished(dlid) ==
  /\ wpc[dlid] = "transfer"
  /\ PutAll(dlid, HookFinished(dlid))
  /\ wpc' = [wpc EXCEPT ![dlid] = "post"]
  /\ UNCHANGED <<downloads, counter, exc, flushing, dialog, delivered, sigAt,
                 tickLog>>
  /\ UNCHANGED <<widgets, flet>>

(* extract_info or prepare_filename raises, line 537 catches it *)
FetcherRaises(dlid) ==
  /\ wpc[dlid] \in {"transfer", "post"}
  /\ \E e \in FetchErrors : exc' = [exc EXCEPT ![dlid] = e]
  /\ wpc' = [wpc EXCEPT ![dlid] = "except"]
  /\ UNCHANGED <<downloads, counter, event_q, flushing, dialog, published,
                 delivered, sigAt, tickLog>>
  /\ UNCHANGED <<widgets, flet>>

(* extract_info and prepare_filename return, lines 533-536; the finally  *)
(* block (lines 546-547) follows: the worker thread itself runs          *)
(* refresh_gallery, and the thread ends                                  *)
FetcherReturns(dlid) ==
  /\ wpc[dlid] = "post"
  /\ \E p \in Paths : PutAll(dlid, SuccessEvents(dlid, p))
  /\ wpc' = [wpc EXCEPT ![dlid] = "returned"]
  /\ UNCHANGED <<downloads, counter, exc, flushing, dialog, delivered, sigAt,
                 tickLog>>
  /\ widgets' = [widgets EXCEPT !.gallery_by = @ \cup {"worker"}]
  /\ UNCHANGED flet

(* the except block, lines 537-545; the finally block (lines 546-547)    *)
(* follows: the worker thread itself runs refresh_gallery, and the       *)
(* thread ends                                                           *)
ExceptBlock(dlid) ==
  /\ wpc[dlid] = "except"
  /\ PutAll(dlid, ExceptEvents(dlid, exc[dlid]))
  /\ wpc' = [wpc EXCEPT ![dlid] = "returned"]
  /\ UNCHANGED <<downloads, counter, exc, flushing, dialog, delivered, sigAt,
                 tickLog>>
  /\ widgets' = [widgets EXCEPT !.gallery_by = @ \cup {"worker"}]
  /\ UNCHANGED flet

Worker(dlid) ==
  \/ TickDownloading(dlid)
  \/ TickFinished(dlid)
  \/ FetcherRaises(dlid)
  \/ FetcherReturns(dlid)
  \/ ExceptBlock(dlid)

Flush == FlushStart \/ FlushStep \/ FlushEnd

Next ==
  \/ \E u \in Urls : start_download(u)
  \/ DismissDialog
  \/ \E dlid \in 1..(MaxJobs + 1) : stop_download(dlid)
  \/ FlushStart
  \/ FlushStep
  \/ FlushEnd
  \/ \E dlid \in DOMAIN downloads : TickDownloading(dlid)
  \/ \E dlid \in DOMAIN downloads : TickFinished(dlid)
  \/ \E dlid \in DOMAIN downloads : FetcherRaises(dlid)
  \/ \E dlid \in DOMAIN downloads : FetcherReturns(dlid)
  \/ \E dlid \in DOMAIN downloads : ExceptBlock(dlid)

Spec == Init /\ [][Next]_vars

(* ---- the URL entry and the auto-start on paste, src/desktop_app.py ---- *)

(* texts of the URL entry: a URL, the same with a blank after it, a       *)
(* second URL, a URL of ten characters, an address without a scheme       *)
URL_A == <<"h", "t", "t", "p", ":", "/", "/", "a", ".", "b", "/", "c">>
URL_B == <<"h", "t", "t", "p", ":", "/", "/", "x", ".", "y", "/", "z">>
URL_SHORT == <<"h", "t", "t", "p", ":", "/", "/", "a", ".", "b">>
NO_SCHEME == <<"w", "w", "w", ".", "a", ".", "b", "/", "c", "/", "d", "e">>
PasteTexts == {<<>>, URL_A, URL_A \o <<" ">>, URL_B, URL_SHORT, NO_SCHEME}

(* w in v, for Python strings *)
Contains(v, w) ==
  \E i \in 1..(Len(v) - Len(w) + 1) : SubSeq(v, i, i + Len(w) - 1) = w

(* the test of line 216: v and 'http' in v and len(v) > 10 *)
looks_like_url(v) ==
  v # <<>> /\ Contains(v, <<"h", "t", "t", "p">>) /\ Len(v) > MinUrlLen

(* a variant that arms a timer without cancelling the one before *)
on_url_var_changed_NoCancel(e) ==
  LET v == strip(e.url_var) IN
  IF looks_like_url(v)
    THEN [e EXCEPT
           !.timers = @ \cup {[id |-> e.armed + 1, v |-> v,
                               raw |-> e.url_var]},
           !.after_id = e.armed + 1,
           !.armed = @ + 1]
    ELSE e

(* _on_url_var_changed, lines 211-222, as a function of the entry:        *)
(* after_cancel takes the timer named by _paste_after_id off the pending  *)
(* ones (no effect if it has fired), after(350, ...) arms a new one       *)
on_url_var_changed(e) ==
  LET v == strip(e.url_var) IN
  IF looks_like_url(v)
    THEN [e EXCEPT
           !.timers = {t \in @ : t.id # e.after_id}
                        \cup {[id |-> e.armed + 1, v |-> v,
                               raw |-> e.url_var]},
           !.after_id = e.armed + 1,
           !.armed = @ + 1]
    ELSE e

(* the user types or pastes, or _platform_click clears the entry (line    *)
(* 290): url_var is written and the trace of line 226 runs the callback   *)
EntryWrite(u) ==
  /\ MainIdle
  /\ entry.writes < MaxWrites
  /\ widgets' = [widgets EXCEPT !.entry =
                   on_url_var_changed(
                     [@ EXCEPT !.url_var = u, !.writes = @ + 1,
                               !.started = 0, !.submitted = FALSE])]
  /\ UNCHANGED <<downloads, counter, event_q, wpc, exc, flushing, dialog,
                 published, delivered, sigAt, tickLog, flet>>

(* the timer t fires: _maybe_start_from_paste(v), lines 382-391 *)
PasteTimerFires(t) ==
  /\ ~flushing
  /\ t \in entry.timers
  /\ IF strip(entry.url_var) # t.v
       THEN /\ widgets' = [widgets EXCEPT !.entry.timers = @ \ {t}]
            /\ UNCHANGED <<downloads, counter, event_q, wpc, exc, flushing,
                           dialog, published, delivered, sigAt, tickLog>>
       ELSE /\ start_download_body(entry.url_var)
            /\ widgets' = [widgets EXCEPT
                             !.entry.timers = @ \ {t},
                             !.entry.started = @ + (counter' - counter)]
  /\ UNCHANGED flet

(* the Return key or the button calls start_download with the text the    *)
(* entry holds                                                            *)
SubmitEntry ==
  /\ MainIdle
  /\ start_download_body(entry.url_var)
  /\ widgets' = [widgets EXCEPT
                   !.entry.submitted = TRUE,
                   !.entry.started = @ + (counter' - counter)]
  /\ UNCHANGED flet

(* the entry, its timers and the submissions; the workers and _flush_logs *)
(* touch neither url_var nor the timers nor the counter and are left out  *)
PasteNext ==
  \/ \E u \in PasteTexts : EntryWrite(u)
  \/ \E t \in entry.timers : PasteTimerFires(t)
  \/ SubmitEntry
  \/ DismissDialog

PasteSpec == Init /\ [][PasteNext]_vars

(* ---- the Flet front end, src/main.py: values and pure functions ---- *)

(* YOUTUBE_ALLOWED, line 25 *)
YOUTUBE_ALLOWED == FALSE

(* URLs as sequences of pieces; 'x in url' is read as "x is a piece" *)
FletUrls == {<<"www.", "youtube.com", "/w">>, <<"youtu.be", "/w">>,
             <<"example.com", "/v">>}

FletPath == "/dl/v.mp4"

(* the texts of the status callbacks, in ASCII *)
FLET_BLOCKED == "fashal: youtube"          \* line 79
FLET_PREPARING == "jari al-tahdir"         \* line 94
FLET_COMPLETE == "iktamal al-tahmil"       \* lines 101 and 125
FLET_FAILED == "fashal al-tahmil: e"       \* line 106
FLET_UNEXPECTED == "khata ghayr mutawaqqa" \* line 109
FLET_PROGRESS == "jari al-tahmil"          \* lines 120 and 122
FLET_HOOK_ERROR == "fashal al-tahmil."     \* line 127
FLET_SUCCESS == "iktamal bi-najah"         \* line 448
FLET_FAIL_PREFIX == "fashal: "             \* line 452

(* Python None as an error text *)
NoError == "None"

(* is_youtube_url, lines 62-64 *)
is_youtube_url(url) ==
  \E i \in 1..Len(url) : url[i] = "youtube.com" \/ url[i] = "youtu.be"

(* a variant that knows the long host name only *)
Rejected_LongOnly(url) ==
  ~YOUTUBE_ALLOWED /\ \E i \in 1..Len(url) : url[i] = "youtube.com"

(* the test of line 78 *)
Rejected(url) == ~YOUTUBE_ALLOWED /\ is_youtube_url(url)

(* the item slot of a thread that has not made its DownloadItem yet *)
FletNoItem ==
  [timestamp |-> NoneVal, status |-> "pending", path |-> "",
   error |-> NoError]

(* DownloadItem(title, path='', url, status='downloading', platform),     *)
(* lines 415-421, made when time.time() reads now                         *)
FletDownloadItem(now) ==
  [timestamp |-> now, status |-> "downloading", path |-> "",
   error |-> NoError]

(* update_status, line 430: what the callback does to the item *)
update_status(item) == [item EXCEPT !.status = "downloading"]

(* the text of the status callback _yt_dlp_hook hands over, by d['status'] *)
HookStatusText ==
  [downloading |-> FLET_PROGRESS, finished |-> FLET_COMPLETE,
   error |-> FLET_HOOK_ERROR]

(* lines 445-447 *)
FinishDone(item, final_path) ==
  [item EXCEPT !.status = "done", !.path = final_path]

(* lines 450-451, status_text being self.status_text.value *)
FinishError(item, status_text) ==
  [item EXCEPT !.status = "error", !.error = status_text]

(* ---- the Flet front end, src/main.py: the threads ---- *)

(* DownloadView.start_download with a URL in the input: lines 398-410     *)
(* start a thread running _download_thread(url, platform)                 *)
FletStartDownload ==
  /\ Len(flet_pc) < MaxFletJobs
  /\ FletLoad + 3 <= MaxFletLoad
  /\ \E url \in FletUrls :
       flet' = [flet EXCEPT
         !.pc = Append(@, "spawned"),
         !.url = Append(@, url),
         !.cb = Append(@, <<>>),
         !.item = Append(@, FletNoItem)]
  /\ UNCHANGED desktop_vars

(* _download_thread, lines 415-421: DownloadItem(..., status='downloading') *)
(* with timestamp = time.time() from the default factory of line 44        *)
FletCreateItem(k) ==
  /\ flet_pc[k] = "spawned"
  /\ flet' = [flet EXCEPT
       !.item[k] = FletDownloadItem(flet_now),
       !.pc[k] = "created",
       !.created = Append(@, k)]
  /\ UNCHANGED desktop_vars

(* line 422: downloads.insert(0, item), one atomic list operation *)
FletInsert(k) ==
  /\ flet_pc[k] = "created"
  /\ flet' = [flet EXCEPT !.downloads = <<k>> \o @, !.pc[k] = "inserted"]
  /\ UNCHANGED desktop_vars

(* the thread of k calls status_cb(text) itself: update_status, lines     *)
(* 429-439, and the thread goes on at position pc                         *)
FletStatusCb(k, text, pc) ==
  flet' = [flet EXCEPT !.item[k] = update_status(@),
                       !.status_text = text,
                       !.pc[k] = pc]

(* line 442 calls download_video_yt_dlp; lines 78-80 turn a YouTube URL   *)
(* away, otherwise line 94 reports the preparation and line 95 hands the  *)
(* URL to yt-dlp                                                          *)
FletEnterDownload(k) ==
  /\ flet_pc[k] = "inserted"
  /\ IF Rejected(flet_url[k])
       THEN FletStatusCb(k, FLET_BLOCKED, "none")
       ELSE FletStatusCb(k, FLET_PREPARING, "fetching")
  /\ UNCHANGED desktop_vars

(* yt-dlp calls _yt_dlp_hook (lines 111-127) with a dict of status         *)
(* 'downloading', 'finished' or 'error'.  The hook hands its callbacks to  *)
(* ft.app.page.run_thread, which runs them later on a thread of the pool;  *)
(* in a build of flet whose ft.app has no attribute page the expression    *)
(* raises AttributeError, which leaves yt-dlp and is caught at line 108   *)
FletHook(k) ==
  /\ flet_pc[k] = "fetching"
  /\ FletLoad + 1 <= MaxFletLoad
  /\ \/ \E st \in DOMAIN HookStatusText :
          flet' = [flet EXCEPT !.cb[k] = Append(@, HookStatusText[st]),
                               !.hooks = @ + 1]
     \/ flet' = [flet EXCEPT !.item[k] = update_status(@),
                             !.status_text = FLET_UNEXPECTED,
                             !.pc[k] = "none",
                             !.hooks = @ + 1]
  /\ UNCHANGED desktop_vars

(* a thread of the pool runs a status callback the hook handed over *)
FletRunCallback(k) ==
  /\ \E i \in 1..Len(flet_cb[k]) :
       flet' = [flet EXCEPT
         !.item[k] = update_status(@),
         !.status_text = flet_cb[k][i],
         !.cb[k] = SubSeq(@, 1, i - 1) \o SubSeq(@, i + 1, Len(@))]
  /\ UNCHANGED desktop_vars

(* ydl.download returns: line 101 reports it, line 102 returns the path *)
FletDownloadReturns(k) ==
  /\ flet_pc[k] = "fetching"
  /\ FletStatusCb(k, FLET_COMPLETE, "path")
  /\ UNCHANGED desktop_vars

(* yt-dlp raises DownloadError: lines 104-107 report it and return None *)
FletDownloadFails(k) ==
  /\ flet_pc[k] = "fetching"
  /\ FletStatusCb(k, FLET_FAILED, "none")
  /\ UNCHANGED desktop_vars

(* lines 444-452, with the path or the None download_video_yt_dlp gave  *)
FletFinish(k) ==
  /\ flet_pc[k] \in {"path", "none"}
  /\ flet' = [flet EXCEPT
       !.item[k] = IF flet_pc[k] = "path"
                     THEN FinishDone(@, FletPath)
                     ELSE FinishError(@, flet_status_text),
       !.status_text = IF flet_pc[k] = "path"
                         THEN FLET_SUCCESS
                         ELSE FLET_FAIL_PREFIX \o flet_status_text,
       !.pc[k] = "ended"]
  /\ UNCHANGED desktop_vars

(* the clock behind time.time() moves on to its next reading *)
FletClockTick ==
  /\ flet_now < MaxClock
  /\ flet' = [flet EXCEPT !.now = @ + 1]
  /\ UNCHANGED desktop_vars

FletNext ==
  \/ FletStartDownload
  \/ \E k \in DOMAIN flet_pc : FletCreateItem(k)
  \/ \E k \in DOMAIN flet_pc : FletInsert(k)
  \/ \E k \in DOMAIN flet_pc : FletEnterDownload(k)
  \/ \E k \in DOMAIN flet_pc : FletHook(k)
  \/ \E k \in DOMAIN flet_pc : FletRunCallback(k)
  \/ \E k \in DOMAIN flet_pc : FletDownloadReturns(k)
  \/ \E k \in DOMAIN flet_pc : FletDownloadFails(k)
  \/ \E k \in DOMAIN flet_pc : FletFinish(k)
  \/ FletClockTick

FletSpec == Init /\ [][FletNext]_vars

(* sorted(items, key=lambda x: x.timestamp, reverse=True): the sort is    *)
(* stable, also with reverse=True, so items with equal timestamps keep    *)
(* the order they have in the list.  InsertByTimestamp puts k behind      *)
(* every item of res whose timestamp is not smaller.                      *)
RECURSIVE InsertByTimestamp(_, _)
InsertByTimestamp(res, k) ==
  IF res = <<>> THEN <<k>>
  ELSE IF flet_item[Head(res)].timestamp >= flet_item[k].timestamp
         THEN <<Head(res)>> \o InsertByTimestamp(Tail(res), k)
         ELSE <<k>> \o res

RECURSIVE SortedByTimestamp(_)
SortedByTimestamp(items) ==
  IF items = <<>> THEN <<>>
  ELSE InsertByTimestamp(
         SortedByTimestamp(SubSeq(items, 1, Len(items) - 1)),
         items[Len(items)])

(* GalleryView.refresh_gallery, line 493 *)
sorted_downloads == SortedByTimestamp(flet_downloads)

(* worker threads keep running, the fetcher returns or raises, and the    *)
(* after(200) timer keeps firing _flush_logs                              *)
FairSpec ==
  /\ Spec
  /\ \A dlid \in 1..MaxJobs : WF_vars(dlid \in DOMAIN downloads /\ Worker(dlid))
  /\ WF_vars(Flush)

(* ---- vocabulary of the claims ---- *)

Ids == DOMAIN downloads

(* the kind of an event tuple in the terms of the specification; the      *)
(* source has no tuple types of its own for Failed and Cancelled, they    *)
(* are 'status' tuples carrying the error or the cancellation text        *)
Kind(ev) ==
  CASE ev[1] = "add"      -> "Added"
    [] ev[1] = "progress" -> "Progress"
    [] ev[1] = "done"     -> "Completed"
    [] ev[1] = "status" /\ IsCancelled(ev[3]) -> "Cancelled"
    [] ev[1] = "status" /\ IsFailed(ev[3])    -> "Failed"
    [] OTHER              -> "StatusChanged"

TerminalKinds == {"Completed", "Failed", "Cancelled"}

OfKinds(evs, kinds) == SelectSeq(evs, LAMBDA ev : Kind(ev) \in kinds)

(* number of tuples of job j waiting in event_q *)
Queued(j) == Len(SelectSeq(event_q, LAMBDA ev : ev[2] = j))

IsBlank(u) == \A i \in 1..Len(u) : u[i] = " "

(* C1: every worker execution publishes exactly one terminal event        *)
(* (Completed, Failed or Cancelled) for its job: none while the fetcher   *)
(* call is running or the exception is being handled, one from then on,   *)
(* never two.                                                             *)
C1_OneTerminalEvent ==
  \A j \in Ids :
    LET n == Len(OfKinds(published[j], TerminalKinds)) IN
    /\ n <= 1
    /\ wpc[j] \in {"transfer", "post", "except"} => n = 0
    /\ wpc[j] = "returned" => n = 1

C1_Witness ==
  \E j \in Ids :
    /\ wpc[j] = "returned"
    /\ downloads[j].cancel_event
    /\ Queued(j) = 0
    /\ Len(OfKinds(published[j], TerminalKinds)) = 1

(* C3: once the status of an item is terminal (done, failed, cancelled),  *)
(* no step of the program - a dispatched event, _stop_download, a further *)
(* start_download - changes it.                                           *)
C3_TerminalIsFinal ==
  [][\A j \in Ids :
       IsTerminal(downloads[j].status) =>
         downloads'[j].status = downloads[j].status]_vars

C3_Witness ==
  \E j \in Ids :
    /\ IsTerminal(downloads[j].status)
    /\ sigAt[j] = "terminal"
    /\ counter > j + 1

(* C4: a start_download with a non-empty URL gives the job an id (the one *)
(* carried by the Added event it puts) greater than every id given       *)
(* before, and when it returns self.downloads holds an item for that id   *)
(* whose status is pending or later.                                      *)
C4_FreshIncreasingId ==
  [][\A u \in Urls :
       (start_download(u) /\ ~IsBlank(u)) =>
         LET id == event_q'[Len(event_q')][2] IN
         /\ \A i \in Ids : i < id
         /\ id \in DOMAIN downloads'
         /\ downloads'[id].id = id
         /\ downloads'[id].status
              \in {"pending", "downloading", "finalizing", "done"}
         /\ DOMAIN downloads' = Ids \cup {id}]_vars

C4_Witness == 2 \in Ids /\ downloads[2].id = 2 /\ downloads[1].id = 1

(* C5: start_download with an empty or all-blank URL is rejected on the   *)
(* spot: no item is stored, the id counter keeps its value, nothing is    *)
(* put on event_q and no worker is started.                               *)
C5_EmptyUrlRejected ==
  [][\A u \in Urls :
       (start_download(u) /\ IsBlank(u)) =>
         UNCHANGED <<downloads, counter, event_q, published, wpc>>]_vars

C5_Witness == dialog = "required" /\ Ids = {1} /\ counter = 2

(* C6: _stop_download on an item whose status is terminal changes neither *)
(* the item (its cancel_event included) nor event_q.                      *)
C6_CancelTerminalNoOp ==
  [][\A j \in Ids :
       (stop_download(j) /\ IsTerminal(downloads[j].status)) =>
         UNCHANGED <<downloads, event_q>>]_vars

(* the status of job j, "" while j is not submitted *)
StatusOf(j) == IF j \in Ids THEN downloads[j].status ELSE ""

(* C2: under fairness of the workers, the fetcher and the drain timer,    *)
(* the status of every submitted job eventually is one of done, failed,   *)
(* cancelled for good, and the one it reaches first is the one it keeps.  *)
C2_EventuallyOneTerminal ==
  /\ <>[](\A j \in 1..MaxJobs : j \in Ids => IsTerminal(StatusOf(j)))
  /\ [][\A j \in 1..MaxJobs :
          IsTerminal(StatusOf(j)) => StatusOf(j)' = StatusOf(j)]_vars

C2_Witness ==
  \E j \in Ids :
    /\ IsTerminal(downloads[j].status)
    /\ wpc[j] = "returned"
    /\ event_q = <<>>

CancelSeen(j) == j \in Ids /\ exc[j] = USER_CANCELLED

C8_LateCancelCompletes ==
  \A j \in Ids :
    (/\ sigAt[j] \in {"post", "returned", "terminal"}
     /\ wpc[j] = "returned"
     /\ exc[j] = "") =>
      LET st == downloads[j].status
          completed == OfKinds(published[j], {"Completed"}) IN
      /\ Len(completed) = 1
      /\ completed[1][3] \in Paths
      /\ OfKinds(published[j], {"Cancelled"}) = <<>>
      /\ ~IsCancelled(st)
      /\ IsTerminal(st) => st = "done" /\ downloads[j].filepath = completed[1][3]
      /\ Queued(j) = 0 => st = "done"

C8_Witness ==
  \E j \in Ids :
    /\ sigAt[j] = "post"
    /\ wpc[j] = "returned"
    /\ downloads[j].cancel_event
    /\ downloads[j].status = "done"
    /\ downloads[j].filepath \in Paths

(* C9: the percents of successive Progress events of a job never          *)
(* decrease.                                                              *)
C9_ProgressMonotone ==
  \A j \in Ids :
    LET pr == OfKinds(published[j], {"Progress"}) IN
    \A a, b \in 1..Len(pr) : a < b => pr[a][3] <= pr[b][3]

(* C10: the kinds of the events of a job, in the order the drain          *)
(* delivers them, are one Added, then Progress events, then at most one   *)
(* StatusChanged, then one terminal event; nothing follows the terminal   *)
(* event, and a job whose worker has ended and whose events are all       *)
(* drained has exactly one terminal event, at the end.                    *)
Rank(ev) ==
  CASE Kind(ev) = "Added"         -> 1
    [] Kind(ev) = "Progress"      -> 2
    [] Kind(ev) = "StatusChanged" -> 3
    [] OTHER                      -> 4

RanToSuccess(j) ==
  /\ sigAt[j] = ""
  /\ wpc[j] = "returned"
  /\ exc[j] = ""
  /\ Queued(j) = 0

KnownTotals(j) == \A i \in 1..Len(notified[j]) : notified[j][i].total_bytes # 0

(* C11: for a job that is never cancelled, whose fetcher reports ticks    *)
(* (d_i, total) with a known total and then succeeds with path p, the     *)
(* drained events are exactly Added, Progress(floor(d_i * 100 / total))   *)
(* for each tick in order, StatusChanged(finalizing), Completed(p), and   *)
(* after the drain the job is done with filepath p.                       *)
C11_ExactPercentStream ==
  \A j \in Ids :
    (RanToSuccess(j) /\ KnownTotals(j)) =>
      \E p \in Paths :
        /\ delivered[j] =
             << <<"add", j, PREPARING>> >>
             \o [i \in 1..Len(notified[j]) |->
                   LET d == notified[j][i] IN
                   <<"progress", j, Floor100(d.downloaded_bytes, d.total_bytes),
                     d.speed_str, d.eta>>]
             \o << <<"status", j, "finalizing">>, <<"done", j, p>> >>
        /\ downloads[j].status = "done"
        /\ downloads[j].filepath = p

(* the first _stop_download of job j came while its fetcher was running  *)
(* and had not yet delivered a 'downloading' notification, and the        *)
(* fetcher has delivered one since: the hook has handled it or has raised *)
CancelledBeforeFirstTick(j) ==
  /\ sigAt[j] = "transfer"
  /\ sigTick[j] = 0
  /\ notified[j] # <<>> \/ exc[j] = USER_CANCELLED

(* C12: when Cancel comes after Submit and before the fetcher's first     *)
(* progress tick, the worker aborts at that first tick without publishing *)
(* any Progress event; the job ends cancelled with exactly one Cancelled  *)
(* event, no Completed event, and its filepath stays empty.               *)
C12_CancelBeforeFirstTick ==
  \A j \in Ids :
    CancelledBeforeFirstTick(j) =>
      /\ notified[j] = <<>>
      /\ exc[j] = USER_CANCELLED
      /\ wpc[j] \in {"except", "returned"}
      /\ OfKinds(published[j], {"Progress", "Completed", "Failed"}) = <<>>
      /\ Len(OfKinds(published[j], {"Cancelled"}))
           = (IF wpc[j] = "returned" THEN 1 ELSE 0)
      /\ downloads[j].filepath = ""
      /\ downloads[j].status # "done"
      /\ ~IsFailed(downloads[j].status)
      /\ (wpc[j] = "returned" /\ Queued(j) = 0) =>
           IsCancelled(downloads[j].status)

C12_Witness ==
  \E j \in Ids :
    /\ CancelledBeforeFirstTick(j)
    /\ wpc[j] = "returned"
    /\ Queued(j) = 0
    /\ IsCancelled(downloads[j].status)

(* the fetcher of job j raised an error of its own and no                *)
(* _stop_download for j came before the worker had ended                  *)
FailedUncancelled(j) ==
  /\ exc[j] \in FetchErrors
  /\ sigAt[j] \in {"", "returned", "terminal"}

IsPrefix(a, b) == Len(a) <= Len(b) /\ SubSeq(b, 1, Len(a)) = a

(* the tuples of job j in event_q, oldest first *)
Waiting(j) == SelectSeq(event_q, LAMBDA ev : ev[2] = j)

(* C14: the event queue loses, duplicates and reorders nothing.  What the *)
(* drain has delivered for a job followed by what still waits for it is   *)
(* exactly what was published for it, in publish order; a step either     *)
(* appends to the tail of the queue or takes its oldest tuple and         *)
(* delivers that one; nothing leaves the queue while no drain runs; and a *)
(* drain ends only when it has taken everything that was queued.          *)
C14_QueueFifo ==
  /\ [](\A j \in Ids : delivered[j] \o Waiting(j) = published[j])
  /\ [][
        /\ \/ IsPrefix(event_q, event_q')
           \/ /\ event_q # <<>>
              /\ event_q' = Tail(event_q)
              /\ LET ev == Head(event_q) IN
                 delivered'[ev[2]] = Append(delivered[ev[2]], ev)
        /\ (~flushing) => IsPrefix(event_q, event_q')
        /\ (flushing /\ ~flushing') => event_q = <<>>
       ]_vars

C14_Witness ==
  /\ Ids = {1, 2}
  /\ ~flushing
  /\ \A j \in Ids : delivered[j] # <<>> /\ Len(Waiting(j)) >= 2
  /\ event_q[1][2] = 2
  /\ event_q[2][2] = 1
  /\ event_q[3][2] = 2

(* job ids that are not in self.downloads *)
UnknownIds == (1..(MaxJobs + 1)) \ Ids

(* the progress, status and done tuples a caller can hand to the          *)
(* handlers for the id dlid                                               *)
TuplesFor(dlid) ==
  {<<"progress", dlid, Percent(d), d.speed_str, d.eta>> : d \in Notifications}
  \cup {<<"status", dlid, t>> :
          t \in {"finalizing", CANCELLED_TEXT} \cup {ErrorText(e) : e \in Messages}}
  \cup {<<"done", dlid, p>> : p \in Paths}

(* C15: _stop_download and the handlers that apply Progress,             *)
(* StatusChanged and Completed, given a job id that is not in             *)
(* self.downloads, return without an error and leave self.downloads,      *)
(* every cancel_event in it and event_q unchanged.                        *)
C15_UnknownIdNoOp ==
  /\ [](\A dlid \in UnknownIds : \A ev \in TuplesFor(dlid) :
          Dispatch(ev) = downloads)
  /\ [][\A dlid \in UnknownIds :
          stop_download(dlid) => UNCHANGED <<downloads, event_q>>]_vars

C15_Witness ==
  \E j \in Ids, dlid \in UnknownIds :
    /\ ENABLED stop_download(dlid)
    /\ downloads[j].cancel_event
    /\ ~IsTerminal(downloads[j].status)
    /\ downloads[j].progress > 0
    /\ event_q # <<>>

(* the place of thread k in the order of creation of the items *)
CreatedAt(k) == CHOOSE i \in 1..Len(flet_created) : flet_created[i] = k

(* C16: the job listing of the Flet front end (the global downloads list  *)
(* as refresh_gallery orders it) contains every job whose thread has put  *)
(* its item into the list exactly once, the most recently created item    *)
(* first, also when several download threads insert concurrently.         *)
C16_ListingNewestFirst ==
  /\ \A k \in DOMAIN flet_pc :
       flet_pc[k] \notin {"spawned", "created"} =>
         Cardinality({i \in 1..Len(sorted_downloads) :
                        sorted_downloads[i] = k}) = 1
  /\ \A a, b \in 1..Len(sorted_downloads) :
       a < b => CreatedAt(sorted_downloads[a]) > CreatedAt(sorted_downloads[b])

(* C17: the key set of self.downloads is exactly {1, ..., counter - 1}:  *)
(* every id handed out has its item, under its own id; no item is ever    *)
(* removed; and start_download never gives an id that is already in use.  *)
C17_RegistryKeys ==
  /\ [](/\ Ids = 1..(counter - 1)
        /\ \A j \in Ids : downloads[j].id = j)
  /\ [][
        /\ Ids \subseteq DOMAIN downloads'
        /\ \A u \in Urls :
             (start_download(u) /\ ~IsBlank(u)) =>
               /\ counter \notin Ids
               /\ DOMAIN downloads' = Ids \cup {counter}
       ]_vars

C17_Witness ==
  /\ counter = 3
  /\ Ids = {1, 2}
  /\ IsTerminal(downloads[1].status)
  /\ downloads[2].status = "pending"

(* C18: the cancel token of a job is one-way.  An item enters             *)
(* self.downloads with its cancel_event unset; no step of the program     *)
(* clears a set cancel_event; and a _stop_download on an item whose       *)
(* cancel_event is already set leaves every item as it was.               *)
C18_TokenOneWay ==
  [][
     /\ \A j \in Ids : downloads[j].cancel_event => downloads'[j].cancel_event
     /\ \A j \in DOMAIN downloads' \ Ids : ~downloads'[j].cancel_event
     /\ \A j \in Ids :
          (stop_download(j) /\ downloads[j].cancel_event) =>
            downloads' = downloads
    ]_vars

C18_Witness ==
  \E j \in Ids :
    /\ downloads[j].cancel_event
    /\ sigAt[j] = "transfer"
    /\ sigTick[j] = 0
    /\ IsCancelled(downloads[j].status)
    /\ ENABLED stop_download(j)

(* C19: _stop_download only signals the token.  It leaves status,        *)
(* progress, speed, eta and filepath of the item (and every other item)   *)
(* as they were and puts nothing on event_q; the status of a job becomes  *)
(* cancelled only in the drain, when the cancellation tuple its worker    *)
(* has put is dispatched.                                                 *)
C19_CancelOnlySignals ==
  [][
     /\ \A j \in Ids :
          stop_download(j) =>
            /\ downloads' = [downloads EXCEPT ![j].cancel_event = TRUE]
            /\ event_q' = event_q
            /\ published' = published
     /\ \A j \in Ids :
          (~IsCancelled(downloads[j].status)
             /\ IsCancelled(downloads'[j].status)) =>
            /\ flushing
            /\ event_q # <<>>
            /\ Head(event_q) = <<"status", j, CANCELLED_TEXT>>
            /\ Len(OfKinds(published[j], {"Cancelled"})) = 1
            /\ wpc[j] = "returned"
    ]_vars

C19_Witness ==
  \E j \in Ids :
    /\ downloads[j].cancel_event
    /\ sigAt[j] = "transfer"
    /\ wpc[j] = "transfer"
    /\ downloads[j].status = "downloading"
    /\ downloads[j].progress > 0
    /\ downloads[j].filepath = ""
    /\ event_q = <<>>

(* how far the worker of a job has come *)
Stage(pc) ==
  CASE pc = "transfer" -> 1
    [] pc = "post"     -> 2
    [] pc = "except"   -> 3
    [] OTHER           -> 4

(* C20: there is exactly one worker execution per job id.  Every item has *)
(* a worker; a worker begins (at the fetcher call) in the start_download  *)
(* that creates its item and in no other step; and a worker only moves    *)
(* forward: no step of the program - a _stop_download, the drain, another *)
(* start_download - puts it back to an earlier position or to the         *)
(* fetcher call again.                                                    *)
C20_OneWorkerPerJob ==
  /\ [](DOMAIN wpc = Ids)
  /\ [][
        /\ \A j \in Ids : Stage(wpc'[j]) >= Stage(wpc[j])
        /\ \A j \in DOMAIN wpc' \ DOMAIN wpc :
             /\ j = counter
             /\ wpc'[j] = "transfer"
             /\ \E u \in Urls : start_download(u)
       ]_vars

C20_Witness ==
  /\ Ids = {1, 2}
  /\ wpc[1] = "returned"
  /\ sigAt[1] = "terminal"
  /\ wpc[2] = "post"
  /\ Queued(1) = 0

(* the state of a job in the terms of the specification, read off the    *)
(* status text of its item                                                *)
JobState(status) ==
  CASE IsCancelled(status) -> "cancelled"
    [] IsFailed(status)    -> "failed"
    [] OTHER               -> status

StateEdges ==
  {<<"pending", "downloading">>, <<"downloading", "downloading">>,
   <<"downloading", "finalizing">>, <<"downloading", "cancelled">>,
   <<"downloading", "failed">>, <<"finalizing", "done">>,
   <<"finalizing", "failed">>}

(* C21: the state of a job changes only along the edges                   *)
(* pending->downloading, downloading->downloading,                        *)
(* downloading->finalizing, downloading->cancelled, downloading->failed,  *)
(* finalizing->done and finalizing->failed.                               *)
C21_StateEdges ==
  [][\A j \in Ids :
       LET a == JobState(downloads[j].status)
           b == JobState(downloads'[j].status) IN
       a # b => <<a, b>> \in StateEdges]_vars

(* C22: whenever the fetcher itself raises an error (an exception other   *)
(* than the hook's USER_CANCELLED), at any point of the run, also after   *)
(* the 'finished' notification and whether or not the cancel_event is     *)
(* set, the worker publishes a Failed event with the error text and the   *)
(* job becomes failed.                                                    *)
C22_FetcherErrorAlwaysFails ==
  \A j \in Ids :
    (exc[j] \in FetchErrors /\ wpc[j] = "returned") =>
      /\ OfKinds(published[j], TerminalKinds)
           = << <<"status", j, ErrorText(exc[j])>> >>
      /\ Queued(j) = 0 => IsFailed(downloads[j].status)

(* the progress tuples of job j the hook has put, in order; the i-th one  *)
(* answers the notification notified[j][i]                                *)
ProgressOf(j) == OfKinds(published[j], {"Progress"})

(* C23: for every notification of the fetcher, the percent carried by the *)
(* Progress event and stored in the progress field of the item is an      *)
(* integer in 0..100.                                                     *)
C23_PercentInRange ==
  \A j \in Ids :
    /\ \A i \in 1..Len(ProgressOf(j)) : ProgressOf(j)[i][3] \in 0..100
    /\ downloads[j].progress \in 0..100

(* C24: on a notification whose total is unknown (absent or zero, and no  *)
(* estimate) the hook still puts a progress tuple with the speed and eta  *)
(* of that notification, and the percent it carries, and the progress     *)
(* field once the tuple is dispatched, is the percent the job reported    *)
(* last (0 if it has reported none).                                      *)
C24_UnknownTotalKeepsPercent ==
  \A j \in Ids :
    /\ Len(ProgressOf(j)) = Len(notified[j])
    /\ \A i \in 1..Len(notified[j]) :
         Total(notified[j][i]) = 0 =>
           /\ ProgressOf(j)[i][4] = notified[j][i].speed_str
           /\ ProgressOf(j)[i][5] = notified[j][i].eta
           /\ ProgressOf(j)[i][3]
                = (IF i = 1 THEN 0 ELSE ProgressOf(j)[i - 1][3])

(* C25: in every reachable state the filepath of an item is non-empty     *)
(* only if its status is done; items that are pending, downloading,       *)
(* finalizing, failed or cancelled have an empty filepath.                *)
C25_PathOnlyWhenDone ==
  \A j \in Ids :
    /\ downloads[j].filepath # "" => downloads[j].status = "done"
    /\ downloads[j].status = "done" => downloads[j].filepath \in Paths

C25_Witness ==
  /\ Ids = {1, 2}
  /\ downloads[1].status = "done"
  /\ downloads[1].filepath # ""
  /\ IsFailed(downloads[2].status)
  /\ downloads[2].filepath = ""

(* the data fields of an item *)
DataFields(item) ==
  <<item.title, item.progress, item.speed, item.eta, item.filepath>>

(* C26: once the status of an item is terminal, its title, progress,      *)
(* speed, eta and filepath never change again, whatever follows: the      *)
(* dispatch of tuples still queued, _stop_download calls, start_download  *)
(* of other jobs.                                                         *)
C26_TerminalFieldsFrozen ==
  [][\A j \in Ids :
       IsTerminal(downloads[j].status) =>
         DataFields(downloads'[j]) = DataFields(downloads[j])]_vars

C26_Witness ==
  /\ Ids = {1, 2}
  /\ downloads[1].status = "done"
  /\ sigAt[1] = "terminal"
  /\ Len(delivered[2]) >= 2
  /\ IsTerminal(downloads[2].status)

(* everything the program holds about job j: its item (token included),   *)
(* the tuples put and dispatched for it, and its worker                   *)
JobView(j) == <<downloads[j], published[j], delivered[j], wpc[j], exc[j]>>

(* C27: jobs are isolated.  Every tuple a worker puts carries the id of   *)
(* its own job; dispatching a tuple with id A changes the item of A only; *)
(* and no step of the program - in particular none of a job that fails or *)
(* is cancelled - changes the item, the token, the tuples or the worker   *)
(* of more than one job.                                                  *)
C27_JobsIsolated ==
  /\ [](\A j \in Ids : \A i \in 1..Len(published[j]) : published[j][i][2] = j)
  /\ [][
        /\ Cardinality({j \in Ids : JobView(j)' # JobView(j)}) <= 1
        /\ (event_q # <<>> /\ event_q' = Tail(event_q)) =>
             \A j \in Ids \ {Head(event_q)[2]} : downloads'[j] = downloads[j]
       ]_vars

C27_Witness ==
  /\ Ids = {1, 2}
  /\ IsCancelled(downloads[1].status)
  /\ downloads[2].status = "done"
  /\ ~downloads[2].cancel_event
  /\ Len(delivered[2]) = 3

(* C28: a worker thread deals with the rest of the program only through   *)
(* its cancel_event and the queues: on no path of _download_worker or its *)
(* progress hook does the worker thread itself read or write the widgets  *)
(* of the Tk thread, such as gallery_list or lbl_total.                   *)
C28_WorkerKeepsOffWidgets == "worker" \notin gallery_by

(* the fields of an item the handlers write *)
HandlerFields(item) ==
  <<item.status, item.progress, item.speed, item.eta, item.filepath>>

(* C29: status, progress, speed, eta and filepath of an item are written  *)
(* only by the thread that drains event_q, and only as the complete       *)
(* effect of dispatching one tuple of that job: the step that changes     *)
(* them is a step of the drain loop in which no worker moves and nothing  *)
(* is put, so no reader sees an item on which part of a tuple's update    *)
(* has been applied.                                                      *)
C29_WritesOnlyInDrain ==
  [][\A j \in Ids :
       HandlerFields(downloads'[j]) # HandlerFields(downloads[j]) =>
         /\ flushing /\ flushing'
         /\ event_q # <<>>
         /\ Head(event_q)[2] = j
         /\ event_q' = Tail(event_q)
         /\ downloads' = Dispatch(Head(event_q))
         /\ UNCHANGED <<wpc, exc, published>>]_vars

C29_Witness ==
  \E j \in Ids :
    /\ flushing
    /\ downloads[j].progress > 0
    /\ downloads[j].speed # ""
    /\ wpc[j] = "transfer"
    /\ event_q # <<>>
    /\ Kind(Head(event_q)) = "Progress"

(* C30: the cancellation check comes before the put on every progress     *)
(* notification.  A 'downloading' notification delivered while the        *)
(* cancel_event of the job is set puts no progress tuple and aborts the   *)
(* transfer (the hook raises USER_CANCELLED), and once a notification has *)
(* found the event set no progress tuple is ever put for that job again.  *)
C30_CheckBeforePublish ==
  [][\A j \in Ids :
       /\ (TickDownloading(j) /\ downloads[j].cancel_event) =>
            /\ published'[j] = published[j]
            /\ event_q' = event_q
            /\ wpc'[j] = "except"
            /\ exc'[j] = USER_CANCELLED
       /\ exc[j] = USER_CANCELLED => ProgressOf(j)' = ProgressOf(j)
       /\ Len(ProgressOf(j)') > Len(ProgressOf(j)) =>
            ~downloads[j].cancel_event]_vars

C30_Witness ==
  \E j \in Ids :
    /\ exc[j] = USER_CANCELLED
    /\ sigTick[j] = 1
    /\ Len(ProgressOf(j)) = 1
    /\ wpc[j] = "returned"

(* the worker of job j has taken a step: it has put a tuple of its own    *)
(* (the first tuple of a job is the 'add' of start_download) or has left  *)
(* the transfer                                                           *)
WorkerMoved(j) == Len(published[j]) > 1 \/ wpc[j] # "transfer"

(* C31: the step pending->downloading is immediate: once the worker of a  *)
(* job has taken its first step, and so whenever a progress, status or    *)
(* terminal tuple of the job has been put, the status of the item is no   *)
(* longer pending.                                                        *)
C31_DownloadingBeforeWorker ==
  \A j \in Ids : WorkerMoved(j) => downloads[j].status # "pending"

(* the tuple _flush_logs dispatches for job j in this step is an 'add'    *)
AddDispatched(j) ==
  /\ Len(delivered'[j]) = Len(delivered[j]) + 1
  /\ delivered'[j][Len(delivered'[j])][1] = "add"

(* C32: start_download stores the item with its cancel_event in           *)
(* self.downloads and puts the 'add' tuple before it starts the worker.   *)
(* So every worker finds the item and the token of its own job; 'add' is  *)
(* the first tuple of the job on event_q and the only 'add' of the job;   *)
(* and _add_download_row, which sets status to downloading, progress to 0 *)
(* and filepath to '', is applied only to an item that is still pending   *)
(* with progress 0 and no filepath: it never overwrites a later status or *)
(* a recorded result.                                                     *)
C32_AddBeforeWorker ==
  /\ [](\A j \in DOMAIN wpc :
          /\ j \in DOMAIN downloads
          /\ downloads[j].id = j
          /\ downloads[j].cancel_event \in BOOLEAN)
  /\ [](\A j \in Ids :
          /\ published[j] # <<>>
          /\ published[j][1][1] = "add"
          /\ Len(OfKinds(published[j], {"Added"})) = 1
          /\ LET all == delivered[j] \o Waiting(j) IN
             all # <<>> /\ all[1][1] = "add")
  /\ [][\A j \in Ids :
          AddDispatched(j) =>
            /\ downloads[j].status = "pending"
            /\ downloads[j].progress = 0
            /\ downloads[j].filepath = ""
            /\ downloads'[j].status = "downloading"]_vars

C32_Witness ==
  \E j \in Ids :
    /\ wpc[j] = "returned"
    /\ downloads[j].status = "downloading"
    /\ Len(delivered[j]) = 1
    /\ Len(published[j]) >= 4
    /\ \E i \in 1..Len(published[j]) : published[j][i][1] = "done"

(* C33: in the Flet front end, once _download_thread has given its        *)
(* DownloadItem the final status done or error, nothing changes           *)
(* item.status again: no callback, and in particular no progress or       *)
(* status callback the fetcher hook handed to page.run_thread, sets it    *)
(* back to downloading or to any other value.                             *)
C33_FinalStatusStays ==
  [][\A k \in DOMAIN flet_pc :
       flet_pc[k] = "ended" =>
         flet_item'[k].status = flet_item[k].status]_vars

(* C34: the auto-start on paste is debounced.  At most one auto-start     *)
(* timer is pending at any time (a write to the URL entry that looks like *)
(* a URL cancels the timer before it); a timer that fires starts a        *)
(* download only if the entry still holds the text that armed it; and a   *)
(* URL put into the entry that the user does not submit otherwise leads   *)
(* to exactly one job: none while its timer is pending, one from the      *)
(* moment the timer has fired.                                            *)
C34_PasteDebounced ==
  /\ [](Cardinality(entry.timers) <= 1)
  /\ [][\A t \in entry.timers :
          (t \notin entry'.timers /\ counter' # counter) =>
            entry.url_var = t.raw]_vars
  /\ []((entry.writes > 0 /\ ~entry.submitted) =>
          IF looks_like_url(strip(entry.url_var))
            THEN entry.started = (IF entry.timers = {} THEN 1 ELSE 0)
            ELSE entry.started = 0)

C34_Witness ==
  /\ entry.armed = 2
  /\ entry.writes = 2
  /\ entry.url_var = URL_B
  /\ entry.timers = {}
  /\ entry.started = 1
  /\ ~entry.submitted
  /\ counter = 2

(* the threads of the Flet front end that were started with a YouTube URL *)
FletYouTube == {k \in DOMAIN flet_pc : is_youtube_url(flet_url[k])}

(* C35: in the Flet front end, YouTube downloads being disallowed, a URL  *)
(* that is_youtube_url recognises is turned away before yt-dlp is called: *)
(* its thread never reaches the fetcher call and no hook runs for it;     *)
(* download_video_yt_dlp reports the failure text through status_cb and   *)
(* returns None; and its DownloadItem is never done and ends with status  *)
(* error, a non-empty error text and an empty path.                       *)
C35_YouTubeRejected ==
  /\ ~YOUTUBE_ALLOWED
  /\ [](\A k \in FletYouTube :
          /\ flet_pc[k] \notin {"fetching", "path"}
          /\ flet_cb[k] = <<>>
          /\ flet_item[k].status # "done"
          /\ flet_item[k].path = ""
          /\ flet_pc[k] = "ended" =>
               /\ flet_item[k].status = "error"
               /\ flet_item[k].error \notin {NoError, ""})
  /\ [][\A k \in FletYouTube :
          (flet_pc[k] = "inserted" /\ flet_pc'[k] # "inserted") =>
            /\ flet_pc'[k] = "none"
            /\ flet_status_text' = FLET_BLOCKED]_vars

C35_Witness ==
  \E k, h \in DOMAIN flet_pc :
    /\ flet_url[k] = <<"youtu.be", "/w">>
    /\ flet_pc[k] = "ended"
    /\ flet_item[k].status = "error"
    /\ flet_item[k].error # FLET_BLOCKED
    /\ flet_item[h].status = "done"

====
